---- MODULE Spec2Model ----
(***************************************************************************)
(* Model of the streaming summarize pipeline of wilcentius-git/summarizer: *)
(* the POST handler of app/api/summarize/route.ts, the recursive           *)
(* mergeSummaries, and the chunker and the retrying generation call of     *)
(* lib/groq.ts (src/unnamed/part_010).                                     *)
(*                                                                         *)
(* Text is a sequence of one-character strings.  The chunk size of the     *)
(* program (8000 characters) is scaled down to SUMMARIZE_CHUNK_SIZE below; *)
(* every operator takes the size as the code does, so nothing depends on   *)
(* the particular value.                                                   *)
(***************************************************************************)
EXTENDS Integers, Sequences, FiniteSets, TLC

(***************************************************************************)
(* Bounds of the model.                                                    *)
(***************************************************************************)
\* Scaled stand-in for SUMMARIZE_CHUNK_SIZE = 8000 (part_010:11).
SUMMARIZE_CHUNK_SIZE == 30

(***************************************************************************)
(* Program constants.                                                      *)
(***************************************************************************)
maxRetries == 3
DefaultRetryMs == 20000
RetryMarginMs == 1000
SUMMARIZE_CHUNK_DELAY_MS == 2500

(***************************************************************************)
(* Strings as sequences of characters.                                     *)
(***************************************************************************)
Rep(c, n) == [k \in 1..n |-> c]

IsSpace(c) == c \in {" ", "\n"}

Min(a, b) == IF a < b THEN a ELSE b

\* A mutant of SliceFrom: the slice begins one character late.
SliceFromSkipping(s, from) == SubSeq(s, from + 2, Len(s))

\* s.slice(from) and s.slice(0, to), 0-based as in JavaScript.
SliceFrom(s, from) == SubSeq(s, from + 1, Len(s))
SliceTo(s, to) == SubSeq(s, 1, Min(to, Len(s)))

RECURSIVE trimStart(_)
trimStart(s) ==
    IF s # <<>> /\ IsSpace(Head(s)) THEN trimStart(Tail(s)) ELSE s

RECURSIVE trimEnd(_)
trimEnd(s) ==
    IF s # <<>> /\ IsSpace(s[Len(s)]) THEN trimEnd(SubSeq(s, 1, Len(s) - 1)) ELSE s

\* String.prototype.trim
trim(s) == trimEnd(trimStart(s))

\* !text.trim()
IsBlank(s) == trim(s) = <<>>

\* Does sep occur in s at 0-based index k?
OccursAt(s, sep, k) ==
    /\ k >= 0
    /\ k + Len(sep) <= Len(s)
    /\ \A j \in 1..Len(sep) : s[k + j] = sep[j]

\* String.prototype.lastIndexOf: the largest 0-based index, or -1.
lastIndexOf(s, sep) ==
    LET hits == {k \in 0..Len(s) : OccursAt(s, sep, k)}
    IN  IF hits = {} THEN -1 ELSE CHOOSE k \in hits : \A m \in hits : m <= k

\* The separators of splitIntoChunks in their order of preference.
Separators == << <<"\n", "\n">>, <<"\n">>, <<".", " ">>, <<" ">> >>

\* A mutant of findBreak: the break point after the separator whose last
\* occurrence is furthest right, whatever its place in the order.
findBreakRightmost(segment, maxSize, n) ==
    LET ok == {m \in n..Len(Separators) :
                  2 * lastIndexOf(segment, Separators[m]) >= maxSize}
        ends == {lastIndexOf(segment, Separators[m]) + Len(Separators[m]) : m \in ok}
    IN  IF ends = {} THEN -1 ELSE CHOOSE e \in ends : \A f \in ends : f <= e

\* The for loop over the separators (part_010:32-38): the break point after
\* the first separator whose last occurrence is at or after minBreak =
\* maxSize * 0.5, or -1.
RECURSIVE findBreak(_, _, _)
findBreak(segment, maxSize, n) ==
    IF n > Len(Separators) THEN -1
    ELSE LET sep == Separators[n]
             idx == lastIndexOf(segment, sep)
         IN  IF 2 * idx >= maxSize THEN idx + Len(sep)
             ELSE findBreak(segment, maxSize, n + 1)

\* A mutant of breakPointOf: without a separator nothing is cut.
breakPointOfWithoutHardCut(remaining, maxSize) ==
    LET segment == SliceTo(remaining, maxSize)
        bp == findBreak(segment, maxSize, 1)
    IN  IF bp <= 0 THEN 0 ELSE bp

\* One evaluation of the break point for the remaining text (part_010:29-39).
breakPointOf(remaining, maxSize) ==
    LET segment == SliceTo(remaining, maxSize)
        bp == findBreak(segment, maxSize, 1)
    IN  IF bp <= 0 THEN maxSize ELSE bp

\* The while loop of splitIntoChunks (part_010:24-42).
RECURSIVE splitLoop(_, _, _)
splitLoop(remaining, maxSize, chunks) ==
    IF Len(remaining) = 0 THEN chunks
    ELSE IF Len(remaining) <= maxSize THEN Append(chunks, trim(remaining))
    ELSE LET breakPoint == breakPointOf(remaining, maxSize)
         IN  splitLoop(trim(SliceFrom(remaining, breakPoint)), maxSize,
                       Append(chunks, trim(SliceTo(remaining, breakPoint))))

\* A mutant of splitIntoChunks: the empty chunks are not filtered out.
splitIntoChunksUnfiltered(text, maxSize) ==
    IF Len(text) <= maxSize THEN <<trim(text)>>
    ELSE splitLoop(text, maxSize, <<>>)

splitIntoChunks(text, maxSize) ==
    IF Len(text) <= maxSize THEN <<trim(text)>>
    ELSE SelectSeq(splitLoop(text, maxSize, <<>>), LAMBDA c : Len(c) > 0)

\* Array.prototype.join("\n\n")
RECURSIVE join(_)
join(parts) ==
    IF parts = <<>> THEN <<>>
    ELSE IF Len(parts) = 1 THEN parts[1]
    ELSE parts[1] \o <<"\n", "\n">> \o join(Tail(parts))

\* The decimal digits of a natural number, as characters.
DigitChar(d) == <<"0", "1", "2", "3", "4", "5", "6", "7", "8", "9">>[d + 1]

RECURSIVE Digits(_)
Digits(n) == IF n < 10 THEN <<DigitChar(n)>> ELSE Digits(n \div 10) \o <<DigitChar(n % 10)>>

\* `[Bagian ${i + 1}]\n${part}` (route.ts:186), i 0-based.
\* A mutant of labelPart: the parts are numbered from zero.
labelPartFromZero(i, part) ==
    <<"[", "B", "a", "g", "i", "a", "n", " ">> \o Digits(i) \o <<"]", "\n">> \o part

labelPart(i, part) ==
    <<"[", "B", "a", "g", "i", "a", "n", " ">> \o Digits(i + 1) \o <<"]", "\n">> \o part


(***************************************************************************)
(* Events, errors and the environment's answers.                           *)
(***************************************************************************)
NoHint == -1

NoErr == [src |-> "none", status |-> 0, hint |-> NoHint]

\* new Error(...): where it was raised, the HTTP status and the retry hint
\* of the error body that its message embeds.
Err(src, status, hint) == [src |-> src, status |-> status, hint |-> hint]

\* The TypeError of enqueue() / close() on a controller that cannot accept it.
EnqueueError == Err("enqueue", 0, NoHint)
CloseError == Err("close", 0, NoHint)

\* The records handed to send(): type "progress" | "summary" | "error".
Progress(phase, current, total) ==
    [type |-> "progress", phase |-> phase, current |-> current, total |-> total,
     text |-> <<>>, message |-> NoErr]

Summary(text) ==
    [type |-> "summary", phase |-> "", current |-> 0, total |-> 0,
     text |-> text, message |-> NoErr]

Failure(err) ==
    [type |-> "error", phase |-> "", current |-> 0, total |-> 0,
     text |-> <<>>, message |-> err]

\* "Rangkuman tidak dapat dibuat." (route.ts:213)
Placeholder ==
    <<"R", "a", "n", "g", "k", "u", "m", "a", "n", " ", "t", "i", "d", "a", "k", " ",
      "d", "a", "p", "a", "t", " ", "d", "i", "b", "u", "a", "t", ".">>

(***************************************************************************)
(* The inputs the environment draws from.                                  *)
(***************************************************************************)
WordA == Rep("a", SUMMARIZE_CHUNK_SIZE - 5)
WordB == Rep("b", SUMMARIZE_CHUNK_SIZE - 5)
WordC == Rep("c", 10)

BlankText == <<>>
SpaceText == <<" ", "\n">>
ShortText == <<"a", "a", " ", "a">>
TwoChunkText == WordA \o <<" ">> \o WordC
ThreeChunkText == WordA \o <<"\n", "\n">> \o WordB \o <<" ">> \o WordC
\* Longer than the chunk size, but one word followed by white space only.
PaddedText == <<"a">> \o Rep(" ", SUMMARIZE_CHUNK_SIZE)

\* What extraction or transcription may return.  The kind of the file only
\* decides the first events and the wording of the blank-text error, so the
\* longer texts are drawn for plain documents only.
Texts(isAudio, isPdf) ==
    IF isPdf THEN {BlankText, SpaceText, ShortText}
    ELSE IF isAudio THEN {BlankText, ShortText, TwoChunkText}
    ELSE {BlankText, SpaceText, ShortText, TwoChunkText, ThreeChunkText, PaddedText}

\* What the generation service may put in choices[0].message.content.
LongOut == Rep("s", (SUMMARIZE_CHUNK_SIZE \div 2) + 3)
Outputs == {<<" ">>, <<"s">>, LongOut}

\* Non-success statuses other than 429.
FatalStatuses == {500}

\* The retry hint of a 429 body, "try again in X s", in microseconds.
Hints == {NoHint, 1500500}

(***************************************************************************)
(* State.  h is the state of one accepted request: the locals of           *)
(* POST/start(), of mergeSummaries and of summarizeWithGroq, the response  *)
(* stream's controller, and what the request has done so far.              *)
(* cancelled: the caller has aborted (the response stream was cancelled).  *)
(***************************************************************************)
VARIABLES h, cancelled

(***************************************************************************)
(* The parts of the program outside the summarize request, each checked    *)
(* under a specification of its own:                                       *)
(* split:   one application of splitIntoChunks to a text and a size;       *)
(* ocr:     one run of the OCR fallback of extractText on a PDF;           *)
(* page:    the browser page and its cached Groq API key;                  *)
(* meeting: one application of mergeParticipantsBySpeaker.                 *)
(***************************************************************************)
VARIABLES split, ocr, page, meeting

\* The value of a part that the specification at hand does not exercise.
Unused == [pc |-> "unused"]

others == <<split, ocr, page, meeting>>

vars == <<h, cancelled, split, ocr, page, meeting>>

NoCall == [outcome |-> "none", site |-> "", requests |-> 0, limited |-> 0,
           value |-> <<>>, error |-> NoErr]

InitH(isAudio, isPdf) ==
    [pc |-> "start",
     isAudio |-> isAudio, isPdf |-> isPdf,
     \* POST
     hasText |-> FALSE, text |-> <<>>, chunks |-> <<>>, i |-> 0, chunkSummaries |-> <<>>, summary |-> <<>>,
     \* mergeSummaries
     summaries |-> <<>>, mergeChunks |-> <<>>, merged |-> <<>>, mergeI |-> 0,
     \* summarizeWithGroq: the call site, options, content and loop state
     site |-> "", isChunk |-> FALSE, isMerge |-> FALSE, content |-> <<>>,
     attempt |-> 0, lastError |-> NoErr,
     \* control: an exception in flight, a return out of the try block
     thrown |-> NoErr, returned |-> FALSE,
     \* the stream controller
     closeRequested |-> FALSE, closeCalls |-> 0, startRejected |-> FALSE,
     \* history: every record handed to send(), and the requests sent and the
     \* 429 answers received by the current summarizeWithGroq call
     sent |-> <<>>, requests |-> 0, limited |-> 0,
     \* what the last step did: the records it enqueued on the stream, whether
     \* it issued a request, the sleep it began (0: none), the call that ended
     enqueued |-> 0, issued |-> FALSE, sleepMs |-> 0, lastCall |-> NoCall]

(***************************************************************************)
(* The stream controller and send().                                       *)
(***************************************************************************)
\* ReadableStreamDefaultControllerCanCloseOrEnqueue: close() was not called
\* and the stream was not cancelled.
CanCloseOrEnqueue(s, c) == ~s.closeRequested /\ ~c

\* A mutant of sendCatches: send() without its try/catch.
sendCatchesNothing == FALSE

\* send() wraps sendStreamLine in try/catch (route.ts:100-106).
sendCatches == TRUE

\* send(obj): sendStreamLine enqueues the line; enqueue throws on a controller
\* that cannot accept it, and send swallows that.
send(s, obj, c) ==
    IF CanCloseOrEnqueue(s, c)
    THEN [s EXCEPT !.sent = Append(@, obj), !.enqueued = @ + 1]
    ELSE IF sendCatches
    THEN [s EXCEPT !.sent = Append(@, obj)]
    ELSE [s EXCEPT !.sent = Append(@, obj), !.thrown = EnqueueError]

\* controller.close(): throws on a controller that cannot accept it.
close(s, c) ==
    IF CanCloseOrEnqueue(s, c)
    THEN [s EXCEPT !.closeRequested = TRUE, !.closeCalls = @ + 1]
    ELSE [s EXCEPT !.closeCalls = @ + 1, !.thrown = CloseError]

\* Straight-line code of the try block runs while nothing was thrown and no
\* return was executed.
Live(s) == s.thrown = NoErr /\ ~s.returned

sendStmt(s, obj, c) == IF Live(s) THEN send(s, obj, c) ELSE s

closeStmt(s, c) == IF Live(s) THEN close(s, c) ELSE s

returnStmt(s) == IF Live(s) THEN [s EXCEPT !.returned = TRUE] ELSE s

\* A mutant of catchBlock: the partial summaries obtained so far are surfaced
\* as the result when there are any.
catchBlockSalvage(s, c) ==
    IF s.chunkSummaries # <<>>
    THEN send([s EXCEPT !.thrown = NoErr], Summary(join(s.chunkSummaries)), c)
    ELSE send([s EXCEPT !.thrown = NoErr], Failure(s.thrown), c)

\* catch (err) { send({type: "error", message}) } (route.ts:215-219)
catchBlock(s, c) ==
    send([s EXCEPT !.thrown = NoErr], Failure(s.thrown), c)

\* finally { controller.close() } (route.ts:220-222); an exception that leaves
\* start() rejects its promise.
finallyBlock(s, c) ==
    LET s1 == close([s EXCEPT !.thrown = NoErr], c)
        out == IF s1.thrown # NoErr THEN s1.thrown ELSE s.thrown
    IN  [s1 EXCEPT !.pc = "done", !.thrown = NoErr, !.returned = FALSE,
                   !.startRejected = (out # NoErr)]

\* The end of a step of start(): try/catch/finally around what the step ran.
\* A step that neither threw nor returned is suspended at its await.
settle(s, c) ==
    IF s.thrown # NoErr THEN finallyBlock(catchBlock(s, c), c)
    ELSE IF s.returned THEN finallyBlock(s, c)
    ELSE s

(***************************************************************************)
(* summarizeWithGroq (part_010:153-202).                                   *)
(***************************************************************************)
\* parseRetryAfterMs (part_010:144-151): hint is the X of "try again in Xs"
\* in microseconds, or NoHint when the body does not match.
parseRetryAfterMs(hint, defaultMs) ==
    IF hint # NoHint THEN ((hint + 999) \div 1000) + RetryMarginMs ELSE defaultMs

\* A mutant of shouldRetry: one retry fewer.
shouldRetryOnce(status, attempt) == status = 429 /\ attempt < maxRetries - 2

\* A mutant of shouldRetry: any failed status is retried.
shouldRetryAnyStatus(status, attempt) == attempt < maxRetries - 1

\* res.status === 429 && attempt < maxRetries - 1 (part_010:192)
shouldRetry(status, attempt) == status = 429 /\ attempt < maxRetries - 1

\* await: the step ends suspended at pc.
awaitAt(s, pc) == IF Live(s) THEN [s EXCEPT !.pc = pc] ELSE s

\* await sleep(ms)
sleepStmt(s, ms, pc) ==
    IF Live(s) THEN [s EXCEPT !.sleepMs = ms, !.pc = pc] ELSE s

\* The fetch of one loop iteration (part_010:168-180).
fetchStmt(s) ==
    IF Live(s) THEN [s EXCEPT !.requests = @ + 1, !.issued = TRUE, !.pc = "fetch"] ELSE s

\* Entry of summarizeWithGroq up to its first fetch: the prompt is chosen by
\* options.isMerge, then options.isChunk (part_010:158-167).
summarizeWithGroq(s, content, site, isChunk, isMerge) ==
    fetchStmt(IF Live(s)
              THEN [s EXCEPT !.site = site, !.isChunk = isChunk, !.isMerge = isMerge,
                             !.content = content, !.attempt = 0, !.lastError = NoErr,
                             !.requests = 0, !.limited = 0]
              ELSE s)

\* The call returns value / throws err: its locals are gone, and the caller
\* sees the value or the exception.
callEnded(s, outcome, value, err) ==
    [s EXCEPT !.content = <<>>, !.isChunk = FALSE, !.isMerge = FALSE,
              !.attempt = 0, !.lastError = NoErr, !.requests = 0, !.limited = 0,
              !.thrown = err,
              !.lastCall = [outcome |-> outcome, site |-> s.site,
                            requests |-> s.requests, limited |-> s.limited,
                            value |-> value, error |-> err]]

callReturned(s, value) == callEnded(s, "ok", value, NoErr)

callThrew(s, err) == callEnded(s, "throw", <<>>, err)

(***************************************************************************)
(* mergeSummaries (route.ts:26-43), up to its first await.                 *)
(***************************************************************************)
RECURSIVE mergeSummaries(_, _)
mergeSummaries(s, summaries) ==
    IF ~Live(s) THEN s
    ELSE LET combined == join(summaries)
             s1 == [s EXCEPT !.summaries = summaries, !.mergeChunks = <<>>,
                             !.merged = <<>>, !.mergeI = 0]
         IN  IF Len(combined) <= SUMMARIZE_CHUNK_SIZE
             THEN summarizeWithGroq(s1, combined, "mergeOne", FALSE, TRUE)
             ELSE LET chunks == splitIntoChunks(combined, SUMMARIZE_CHUNK_SIZE)
                      s2 == [s1 EXCEPT !.mergeChunks = chunks]
                  IN  IF Len(chunks) > 0
                      THEN summarizeWithGroq(s2, chunks[1], "mergeLoop", FALSE, TRUE)
                      ELSE mergeSummaries(s2, <<>>)

\* A mutant of finish: the summary is sent as it is, empty or not.
finishAsIs(s, value, c) ==
    IF ~Live(s) THEN s
    ELSE returnStmt(sendStmt([s EXCEPT !.summary = value], Summary(value), c))

\* if (!summary) summary = placeholder; send({type: "summary"}) (route.ts:213-214),
\* after which the try block ends.
finish(s, value, c) ==
    IF ~Live(s) THEN s
    ELSE LET summary == IF value = <<>> THEN Placeholder ELSE value
         IN  returnStmt(sendStmt([s EXCEPT !.summary = summary], Summary(summary), c))

\* A mutant of chunkLoop: the merge begins without its progress event.
chunkLoopNoMerging(s, i, c) ==
    IF ~Live(s) THEN s
    ELSE IF i < Len(s.chunks)
    THEN summarizeWithGroq([s EXCEPT !.i = i], s.chunks[i + 1], "chunk", TRUE, FALSE)
    ELSE mergeSummaries([s EXCEPT !.i = i], s.chunkSummaries)

\* The chunk loop of POST at index i (route.ts:182-186), and what follows the
\* loop (route.ts:201-210).
chunkLoop(s, i, c) ==
    IF ~Live(s) THEN s
    ELSE IF i < Len(s.chunks)
    THEN summarizeWithGroq([s EXCEPT !.i = i], s.chunks[i + 1], "chunk", TRUE, FALSE)
    ELSE mergeSummaries(sendStmt([s EXCEPT !.i = i], Progress("merge", 0, 1), c),
                        s.chunkSummaries)

\* The loop of mergeSummaries at index i (route.ts:36-42).
mergeLoop(s, i) ==
    IF ~Live(s) THEN s
    ELSE IF i < Len(s.mergeChunks)
    THEN summarizeWithGroq([s EXCEPT !.mergeI = i], s.mergeChunks[i + 1], "mergeLoop",
                           FALSE, TRUE)
    ELSE mergeSummaries([s EXCEPT !.mergeI = i], s.merged)

(***************************************************************************)
(* The steps of start() (route.ts:99-223): each runs from one await to the *)
(* next, as a function of the request's state s, what the awaited          *)
(* operation delivered, and whether the caller has aborted (c).            *)
(***************************************************************************)
\* A step begins: nothing issued or slept yet in it.
begin(s) ==
    [s EXCEPT !.enqueued = 0, !.issued = FALSE, !.sleepMs = 0, !.lastCall = NoCall]

\* route.ts:108-119: the first progress event, then await file.arrayBuffer().
stepStart(s, c) ==
    settle(awaitAt(sendStmt(begin(s), Progress("extracting", 0, 1), c), "buffer"), c)

\* route.ts:119-142: the buffer arrived; transcription or extraction begins.
stepBuffer(s, c) ==
    LET s1 == IF s.isAudio THEN sendStmt(begin(s), Progress("transcribing", 0, 1), c)
                           ELSE begin(s)
    IN  settle(awaitAt(s1, "extract"), c)

\* The message of the blank-text error (route.ts:145-149).
blankError(s) ==
    IF s.isAudio THEN Err("no-speech", 0, NoHint)
    ELSE IF s.isPdf THEN Err("pdf-ocr-failed", 0, NoHint)
    ELSE Err("no-text", 0, NoHint)

\* route.ts:144-186: transcribeWithGroq / extractText returned text.
stepExtracted(s, text, c) ==
    LET s1 == [begin(s) EXCEPT !.hasText = TRUE, !.text = text]
    IN  IF IsBlank(text)
        THEN settle(returnStmt(closeStmt(sendStmt(s1, Failure(blankError(s1)), c), c)), c)
        ELSE IF Len(text) <= SUMMARIZE_CHUNK_SIZE
        THEN settle(summarizeWithGroq(sendStmt(s1, Progress("summarizing", 1, 1), c),
                                      text, "primary", FALSE, FALSE), c)
        ELSE LET chunks == splitIntoChunks(text, SUMMARIZE_CHUNK_SIZE)
                 s2 == [s1 EXCEPT !.chunks = chunks, !.chunkSummaries = <<>>]
             IN  settle(chunkLoop(sendStmt(s2, Progress("chunks", 0, Len(chunks)), c),
                                  0, c), c)

\* transcribeWithGroq / extractText threw.
stepExtractFailed(s, c) ==
    settle([begin(s) EXCEPT !.thrown = Err(IF s.isAudio THEN "whisper" ELSE "extract",
                                           0, NoHint)], c)

\* A mutant of afterCall: a chunk's summary is put in front of the earlier ones.
afterCallPrepending(s, value, c) ==
    IF s.site = "chunk"
    THEN LET s1 == [s EXCEPT !.chunkSummaries = <<labelPart(s.i, value)>> \o @]
             s2 == sendStmt(s1, Progress("chunks", s.i + 1, Len(s.chunks)), c)
         IN  IF s.i < Len(s.chunks) - 1
             THEN sleepStmt(s2, SUMMARIZE_CHUNK_DELAY_MS, "chunkDelay")
             ELSE chunkLoop(s2, s.i + 1, c)
    ELSE IF s.site = "mergeLoop"
    THEN LET s1 == [s EXCEPT !.merged = Append(@, value)]
         IN  IF s.mergeI < Len(s.mergeChunks) - 1
             THEN sleepStmt(s1, SUMMARIZE_CHUNK_DELAY_MS, "mergeDelay")
             ELSE mergeLoop(s1, s.mergeI + 1)
    ELSE finish(s, value, c)

\* A mutant of afterCall: the inter-chunk delay also follows the last call of
\* a loop.
afterCallDelayingLast(s, value, c) ==
    IF s.site = "chunk"
    THEN LET s1 == [s EXCEPT !.chunkSummaries = Append(@, labelPart(s.i, value))]
             s2 == sendStmt(s1, Progress("chunks", s.i + 1, Len(s.chunks)), c)
         IN  sleepStmt(s2, SUMMARIZE_CHUNK_DELAY_MS, "chunkDelay")
    ELSE IF s.site = "mergeLoop"
    THEN LET s1 == [s EXCEPT !.merged = Append(@, value)]
         IN  sleepStmt(s1, SUMMARIZE_CHUNK_DELAY_MS, "mergeDelay")
    ELSE finish(s, value, c)

\* A mutant of afterCall: no inter-chunk delay at all.
afterCallNeverDelaying(s, value, c) ==
    IF s.site = "chunk"
    THEN LET s1 == [s EXCEPT !.chunkSummaries = Append(@, labelPart(s.i, value))]
             s2 == sendStmt(s1, Progress("chunks", s.i + 1, Len(s.chunks)), c)
         IN  chunkLoop(s2, s.i + 1, c)
    ELSE IF s.site = "mergeLoop"
    THEN LET s1 == [s EXCEPT !.merged = Append(@, value)]
         IN  mergeLoop(s1, s.mergeI + 1)
    ELSE finish(s, value, c)

\* After `await summarizeWithGroq(...)` returned value at the call's site.
afterCall(s, value, c) ==
    IF s.site = "chunk"
    THEN \* route.ts:186-199
         LET s1 == [s EXCEPT !.chunkSummaries = Append(@, labelPart(s.i, value))]
             s2 == sendStmt(s1, Progress("chunks", s.i + 1, Len(s.chunks)), c)
         IN  IF s.i < Len(s.chunks) - 1
             THEN sleepStmt(s2, SUMMARIZE_CHUNK_DELAY_MS, "chunkDelay")
             ELSE chunkLoop(s2, s.i + 1, c)
    ELSE IF s.site = "mergeLoop"
    THEN \* route.ts:37-42
         LET s1 == [s EXCEPT !.merged = Append(@, value)]
         IN  IF s.mergeI < Len(s.mergeChunks) - 1
             THEN sleepStmt(s1, SUMMARIZE_CHUNK_DELAY_MS, "mergeDelay")
             ELSE mergeLoop(s1, s.mergeI + 1)
    ELSE \* "primary" (route.ts:167) and "mergeOne" (route.ts:32, 210): the value
         \* is the summary
         finish(s, value, c)

\* part_010:182-187: the response is ok; content?.trim() ?? "".
stepResponseOk(s, out, c) ==
    LET value == trim(out)
    IN  settle(afterCall(callReturned(begin(s), value), value, c), c)

\* part_010:189-198: the response is not ok.
stepResponseFailed(s, status, hint, c) ==
    LET lastError == Err("groq", status, hint)
        s1 == [begin(s) EXCEPT !.lastError = lastError,
                               !.limited = IF status = 429 THEN @ + 1 ELSE @]
    IN  IF shouldRetry(status, s.attempt)
        THEN settle(sleepStmt(s1, parseRetryAfterMs(hint, DefaultRetryMs), "backoff"), c)
        ELSE settle(callThrew(s1, lastError), c)

\* fetch itself rejected (no response).
stepFetchRejected(s, c) ==
    settle(callThrew(begin(s), Err("fetch", 0, NoHint)), c)

\* part_010:194-195, 167, 201: the backoff sleep ended; continue the loop.
stepBackoffDone(s, c) ==
    LET s1 == [begin(s) EXCEPT !.attempt = @ + 1]
    IN  IF s1.attempt < maxRetries
        THEN settle(fetchStmt(s1), c)
        ELSE settle(callThrew(s1, s1.lastError), c)

\* route.ts:197: the inter-chunk sleep of POST ended.
stepChunkDelayDone(s, c) == settle(chunkLoop(begin(s), s.i + 1, c), c)

\* route.ts:39: the inter-chunk sleep of mergeSummaries ended.
stepMergeDelayDone(s, c) == settle(mergeLoop(begin(s), s.mergeI + 1), c)

\* What an awaited operation may deliver to the request suspended at s.pc.
Delivery(kind, text, status, hint) ==
    [kind |-> kind, text |-> text, status |-> status, hint |-> hint]

Deliveries(s) ==
    IF s.pc = "start" THEN {Delivery("start", <<>>, 0, NoHint)}
    ELSE IF s.pc = "buffer" THEN {Delivery("buffer", <<>>, 0, NoHint)}
    ELSE IF s.pc = "extract"
    THEN {Delivery("text", text, 0, NoHint) : text \in Texts(s.isAudio, s.isPdf)}
         \cup {Delivery("extractFailed", <<>>, 0, NoHint)}
    ELSE IF s.pc = "fetch"
    THEN {Delivery("ok", out, 200, NoHint) : out \in Outputs}
         \cup {Delivery("failed", <<>>, 429, hint) : hint \in Hints}
         \cup {Delivery("failed", <<>>, status, NoHint) : status \in FatalStatuses}
         \cup {Delivery("rejected", <<>>, 0, NoHint)}
    ELSE IF s.pc = "backoff" THEN {Delivery("backoff", <<>>, 0, NoHint)}
    ELSE IF s.pc = "chunkDelay" THEN {Delivery("chunkDelay", <<>>, 0, NoHint)}
    ELSE IF s.pc = "mergeDelay" THEN {Delivery("mergeDelay", <<>>, 0, NoHint)}
    ELSE {}

\* The step of start() that the delivery d resumes.
step(s, d, c) ==
    IF d.kind = "start" THEN stepStart(s, c)
    ELSE IF d.kind = "buffer" THEN stepBuffer(s, c)
    ELSE IF d.kind = "text" THEN stepExtracted(s, d.text, c)
    ELSE IF d.kind = "extractFailed" THEN stepExtractFailed(s, c)
    ELSE IF d.kind = "ok" THEN stepResponseOk(s, d.text, c)
    ELSE IF d.kind = "failed" THEN stepResponseFailed(s, d.status, d.hint, c)
    ELSE IF d.kind = "rejected" THEN stepFetchRejected(s, c)
    ELSE IF d.kind = "backoff" THEN stepBackoffDone(s, c)
    ELSE IF d.kind = "chunkDelay" THEN stepChunkDelayDone(s, c)
    ELSE stepMergeDelayDone(s, c)

(***************************************************************************)
(* Actions.                                                                *)
(***************************************************************************)
Init ==
    /\ \E isAudio \in BOOLEAN, isPdf \in BOOLEAN :
          \* an audio file is never resolved as a PDF document
          /\ ~(isAudio /\ isPdf)
          /\ h = InitH(isAudio, isPdf)
    /\ cancelled = FALSE
    /\ split = Unused /\ ocr = Unused /\ page = Unused /\ meeting = Unused

Start ==
    /\ h.pc = "start"
    /\ h' = stepStart(h, cancelled)
    /\ UNCHANGED <<cancelled, others>>

BufferReady ==
    /\ h.pc = "buffer"
    /\ h' = stepBuffer(h, cancelled)
    /\ UNCHANGED <<cancelled, others>>

Extracted ==
    /\ h.pc = "extract"
    /\ \E text \in Texts(h.isAudio, h.isPdf) : h' = stepExtracted(h, text, cancelled)
    /\ UNCHANGED <<cancelled, others>>

ExtractFailed ==
    /\ h.pc = "extract"
    /\ h' = stepExtractFailed(h, cancelled)
    /\ UNCHANGED <<cancelled, others>>

ResponseOk ==
    /\ h.pc = "fetch"
    /\ \E out \in Outputs : h' = stepResponseOk(h, out, cancelled)
    /\ UNCHANGED <<cancelled, others>>

ResponseRateLimited ==
    /\ h.pc = "fetch"
    /\ \E hint \in Hints : h' = stepResponseFailed(h, 429, hint, cancelled)
    /\ UNCHANGED <<cancelled, others>>

ResponseFatal ==
    /\ h.pc = "fetch"
    /\ \E status \in FatalStatuses : h' = stepResponseFailed(h, status, NoHint, cancelled)
    /\ UNCHANGED <<cancelled, others>>

FetchRejected ==
    /\ h.pc = "fetch"
    /\ h' = stepFetchRejected(h, cancelled)
    /\ UNCHANGED <<cancelled, others>>

BackoffDone ==
    /\ h.pc = "backoff"
    /\ h' = stepBackoffDone(h, cancelled)
    /\ UNCHANGED <<cancelled, others>>

ChunkDelayDone ==
    /\ h.pc = "chunkDelay"
    /\ h' = stepChunkDelayDone(h, cancelled)
    /\ UNCHANGED <<cancelled, others>>

MergeDelayDone ==
    /\ h.pc = "mergeDelay"
    /\ h' = stepMergeDelayDone(h, cancelled)
    /\ UNCHANGED <<cancelled, others>>

\* The caller aborts the request while start() is suspended (page client:
\* cancelSummarize aborts the fetch): the response stream is cancelled.
\* Nothing in the handler observes it.
Cancel ==
    /\ ~cancelled
    /\ h.pc \notin {"start", "done"}
    /\ cancelled' = TRUE
    /\ UNCHANGED <<h, others>>

Next ==
    \/ Start
    \/ BufferReady
    \/ Extracted
    \/ ExtractFailed
    \/ ResponseOk
    \/ ResponseRateLimited
    \/ ResponseFatal
    \/ FetchRejected
    \/ BackoffDone
    \/ ChunkDelayDone
    \/ MergeDelayDone
    \/ Cancel

Spec == Init /\ [][Next]_vars

(***************************************************************************)
(* Vocabulary of the properties.                                           *)
(***************************************************************************)
Done == h.pc = "done"

IsTerminal(ev) == ev.type \in {"summary", "error"}

\* The positions of sent that hold an event of the given type / phase.
OfType(type) == {k \in 1..Len(h.sent) : h.sent[k].type = type}
OfPhase(phase) == {k \in 1..Len(h.sent) : h.sent[k].phase = phase}
Terminals == {k \in 1..Len(h.sent) : IsTerminal(h.sent[k])}

Last(sq) == sq[Len(sq)]
Front(sq) == SubSeq(sq, 1, Len(sq) - 1)

(***************************************************************************)
(* C1.  For every accepted request the events handed to send() contain     *)
(* exactly one terminal event (type "summary" or "error"): never two, none *)
(* only while the request is still running, and no event follows it.       *)
(***************************************************************************)
C1_ExactlyOneTerminal ==
    /\ Cardinality(Terminals) <= 1
    /\ \A k \in Terminals : k = Len(h.sent)
    /\ Done => Cardinality(Terminals) = 1

\* The same, for the requests whose blank-text path did not meet a cancelled
\* stream: there the claim holds.
C1_ExceptBlankAfterCancel ==
    (~(cancelled /\ h.hasText /\ IsBlank(h.text))) => C1_ExactlyOneTerminal

(***************************************************************************)
(* C2.  When the text obtained from extraction or transcription is blank,  *)
(* the request emits exactly one Failure event, no Summarizing,            *)
(* ChunkProgress, Merging or Result event, and issues no request to the    *)
(* generation service.                                                     *)
(***************************************************************************)
C2_BlankFailsOnce ==
    (h.hasText /\ IsBlank(h.text)) =>
        /\ Done
        /\ Cardinality(OfType("error")) = 1
        /\ OfType("summary") = {}
        /\ OfPhase("summarizing") \cup OfPhase("chunks") \cup OfPhase("merge") = {}
        /\ ~h.issued /\ h.requests = 0 /\ h.lastCall = NoCall

(***************************************************************************)
(* C3.  The recursive merge terminates whatever text the service returns.  *)
(* mergeSummaries is a function of its argument and of the service's       *)
(* answers, and the service may answer the same requests the same way      *)
(* again; so termination for every answer entails that a level never calls *)
(* mergeSummaries (route.ts:42) with the very list it was called with.     *)
(* That consequence is what is stated: a finite run refutes it, and the    *)
(* run that does repeats forever.                                          *)
(***************************************************************************)
\* The step in which the last call of the loop of mergeSummaries returns and
\* the function calls itself with merged.
MergeRecurses ==
    /\ h.pc = "fetch" /\ h.site = "mergeLoop"
    /\ h.mergeI = Len(h.mergeChunks) - 1
    /\ h'.lastCall.outcome = "ok"

C3_MergeNeverRepeats ==
    [][MergeRecurses => h'.summaries # h.summaries]_vars

(***************************************************************************)
(* C4.  Whenever a level of mergeSummaries that re-chunked its input calls *)
(* mergeSummaries again (route.ts:42), it hands on strictly fewer          *)
(* summaries than it received.                                             *)
(***************************************************************************)
C4_FewerSummariesEachLevel ==
    [][MergeRecurses => Len(h'.summaries) < Len(h.summaries)]_vars

(***************************************************************************)
(* C5.  One summarizeWithGroq call sends at most maxRetries = 3 requests.  *)
(* A call that fails on status 429 has sent exactly 3 requests, all of     *)
(* them answered 429, and the request fails with that last error; a call   *)
(* that returned after one 429 answer has sent exactly 2 requests.         *)
(***************************************************************************)
C5_RateLimitRetries ==
    /\ h.requests <= maxRetries
    /\ h.lastCall.requests <= maxRetries
    /\ (h.lastCall.outcome = "throw" /\ h.lastCall.error.status = 429) =>
          /\ h.lastCall.requests = maxRetries
          /\ h.lastCall.limited = maxRetries
          /\ h.lastCall.error.src = "groq"
          /\ Last(h.sent) = Failure(h.lastCall.error)
    /\ (h.lastCall.outcome = "ok" /\ h.lastCall.limited = 1) =>
          h.lastCall.requests = 2

\* A call has failed after three 429 answers.
C5_Exhausted ==
    /\ h.lastCall.outcome = "throw"
    /\ h.lastCall.error.status = 429
    /\ h.lastCall.requests = 3

(***************************************************************************)
(* C6.  A non-success answer other than 429 fails the call in the step     *)
(* that receives it: one request was sent for that attempt (every earlier  *)
(* request of the call was answered 429), the step begins no sleep and     *)
(* issues no request, and a backoff sleep is only ever begun on a 429.     *)
(***************************************************************************)
C6_NoRetryOnOtherFailure ==
    /\ (/\ h.lastCall.outcome = "throw"
        /\ h.lastCall.error.src = "groq"
        /\ h.lastCall.error.status # 429) =>
          /\ h.lastCall.requests = h.lastCall.limited + 1
          /\ h.sleepMs = 0
          /\ ~h.issued
          /\ Done
    /\ h.pc = "backoff" => (h.lastError.status = 429 /\ h.sleepMs > 0)

\* A call failed on status 500 at its second attempt, with retries left.
C6_FatalWithAttemptsLeft ==
    /\ h.lastCall.outcome = "throw"
    /\ h.lastCall.error.status = 500
    /\ h.lastCall.requests = 2

(***************************************************************************)
(* C7.  When a ChunkPartial call or a Merge call throws, the request is    *)
(* over in that very step: no request is issued, no Result was or is       *)
(* handed to send(), and exactly one Failure is, the last event, carrying  *)
(* the error the call threw.                                               *)
(***************************************************************************)
C7_FatalCallEndsRequest ==
    (/\ h.lastCall.outcome = "throw"
     /\ h.lastCall.site \in {"chunk", "mergeOne", "mergeLoop"}) =>
        /\ Done
        /\ ~h.issued
        /\ OfType("summary") = {}
        /\ Cardinality(OfType("error")) = 1
        /\ Last(h.sent) = Failure(h.lastCall.error)

\* A chunk call threw when summaries of earlier chunks had been obtained.
C7_FailedWithPartials ==
    /\ h.lastCall.outcome = "throw"
    /\ h.lastCall.site = "chunk"
    /\ Len(h.chunkSummaries) >= 1

(***************************************************************************)
(* C8.  Once the caller has aborted, no step of the request issues a       *)
(* request to the generation service or enqueues an event on the response  *)
(* stream.                                                                 *)
(***************************************************************************)
C8_AbortStopsRequest ==
    [][(cancelled /\ h' # h) => (~h'.issued /\ h'.enqueued = 0)]_vars

(***************************************************************************)
(* C9.  A failed emission never changes the computation.  For every        *)
(* reachable state of a request and everything an awaited operation may    *)
(* deliver to it, the step taken with the response stream cancelled (every *)
(* enqueue throws) and the step taken with the stream open agree on the    *)
(* whole state of the computation: while the request runs the two states   *)
(* differ in nothing but the count of enqueued records, and at its end     *)
(* they agree on everything but the stream controller and the records      *)
(* handed to send(), with the same outcome.  No Failure carries the error  *)
(* of an enqueue.                                                          *)
(***************************************************************************)
\* The type of the first terminal event handed to send(), "none" if none.
Outcome(s) ==
    LET terms == {k \in 1..Len(s.sent) : IsTerminal(s.sent[k])}
    IN  IF terms = {} THEN "none"
        ELSE s.sent[CHOOSE k \in terms : \A m \in terms : k <= m].type

\* The computation: the outcome, and everything but the stream controller and
\* the event log.
Computation(s) ==
    <<Outcome(s),
      [s EXCEPT !.sent = <<>>, !.enqueued = 0, !.closeRequested = FALSE,
                !.closeCalls = 0, !.startRejected = FALSE]>>

C9_EmissionFailureChangesNothing ==
    /\ \A d \in Deliveries(h) :
          LET failing == step(h, d, TRUE)
              working == step(h, d, FALSE)
          IN  /\ Computation(failing) = Computation(working)
              /\ failing.pc # "done" =>
                    [failing EXCEPT !.enqueued = 0] = [working EXCEPT !.enqueued = 0]
    /\ \A k \in OfType("error") : h.sent[k].message # EnqueueError

\* After the abort, the step that received the last chunk's summary handed
\* its events to send(), none was enqueued, and the first merge request went
\* out all the same.
C9_ContinuedAfterFailedEmission ==
    /\ cancelled
    /\ h.pc = "fetch" /\ h.site \in {"mergeOne", "mergeLoop"}
    /\ h.lastCall.outcome = "ok" /\ h.lastCall.site = "chunk"
    /\ h.enqueued = 0
    /\ Last(h.sent) = Progress("merge", 0, 1)

(***************************************************************************)
(* C10.  For a request whose text was split into N chunks and that ended   *)
(* with a Result, the events handed to send() are exactly Extracting       *)
(* (followed by Transcribing when the file is audio), ChunkProgress(0,N),  *)
(* ..., ChunkProgress(N,N), Merging, Result.  At every moment a            *)
(* ChunkProgress(i,N) was sent only when i chunk summaries had been        *)
(* received, and while a Merge-mode request is in flight exactly one       *)
(* Merging was sent, as the last event and right after ChunkProgress(N,N). *)
(***************************************************************************)
ChunkProgresses(N) == [k \in 1..(N + 1) |-> Progress("chunks", k - 1, N)]

Chunked == h.chunks # <<>>

C10_Ordering ==
    /\ \A k \in OfPhase("chunks") : h.sent[k].current <= Len(h.chunkSummaries)
    /\ (h.pc = "fetch" /\ h.isMerge) =>
          /\ Cardinality(OfPhase("merge")) = 1
          /\ Last(h.sent) = Progress("merge", 0, 1)
          /\ Last(Front(h.sent)) = Progress("chunks", Len(h.chunks), Len(h.chunks))

C10_SequenceAfter(first) ==
    (Done /\ Chunked /\ OfType("summary") # {}) =>
        h.sent = first \o ChunkProgresses(Len(h.chunks))
                       \o <<Progress("merge", 0, 1), Summary(h.summary)>>

C10_ChunkedSequence ==
    /\ C10_SequenceAfter(IF h.isAudio
                         THEN <<Progress("extracting", 0, 1), Progress("transcribing", 0, 1)>>
                         ELSE <<Progress("extracting", 0, 1)>>)
    /\ C10_Ordering

\* The sequence as the claim words it: Extracting alone comes first.
C10_ExtractingAloneFirst ==
    /\ C10_SequenceAfter(<<Progress("extracting", 0, 1)>>)
    /\ C10_Ordering

\* A three-chunk request ended with its Result.
C10_ThreeChunksSummarized ==
    /\ Done
    /\ Len(h.chunks) = 3
    /\ OfType("summary") # {}

(***************************************************************************)
(* C11.  Whenever the text obtained is not blank and the chunker returns   *)
(* exactly one chunk for it at the chunk size, the request calls the       *)
(* generation service in Primary mode only: one Summarizing event was      *)
(* handed to send(), no ChunkProgress and no Merging event, and no         *)
(* ChunkPartial or Merge request is or was made.                           *)
(***************************************************************************)
FitsInOneChunk ==
    /\ h.hasText
    /\ ~IsBlank(h.text)
    /\ Len(splitIntoChunks(h.text, SUMMARIZE_CHUNK_SIZE)) = 1

C11_OneChunkOnePrimaryCall ==
    FitsInOneChunk =>
        /\ Cardinality(OfPhase("summarizing")) = 1
        /\ OfPhase("chunks") \cup OfPhase("merge") = {}
        /\ h.site = "primary"
        /\ ~h.isChunk /\ ~h.isMerge
        /\ h.lastCall.site \in {"", "primary"}

(***************************************************************************)
(* C12.  Generation calls of one request never overlap and keep the chunk  *)
(* order.  A step issues a request only by suspending on it; the request   *)
(* for chunk i is in flight only when the summaries of the chunks before   *)
(* it, and no others, have been collected; the k-th collected summary is   *)
(* the one labelled for chunk k, and it is the response to the request     *)
(* for that chunk; and the merge receives the collected summaries in that  *)
(* order.                                                                  *)
(***************************************************************************)
\* The list of collected chunk summaries is labelled 1, 2, ... in order.
InIndexOrder(sums) ==
    \A k \in 1..Len(sums) :
        /\ Len(sums[k]) >= Len(labelPart(k - 1, <<>>))
        /\ SubSeq(sums[k], 1, Len(labelPart(k - 1, <<>>))) = labelPart(k - 1, <<>>)

\* The request in flight is the first request of the merge.
FirstMergeRequest ==
    /\ h.pc = "fetch"
    /\ h.site \in {"mergeOne", "mergeLoop"}
    /\ h.lastCall.site = "chunk"

C12_Sequential ==
    /\ h.issued => h.pc = "fetch"
    /\ h.pc \in {"backoff", "chunkDelay", "mergeDelay", "done"} => ~h.issued
    /\ InIndexOrder(h.chunkSummaries)
    /\ (h.pc \in {"fetch", "backoff"} /\ h.site = "chunk") =>
          /\ Len(h.chunkSummaries) = h.i
          /\ h.content = h.chunks[h.i + 1]
    /\ (h.lastCall.outcome = "ok" /\ h.lastCall.site = "chunk") =>
          Last(h.chunkSummaries) = labelPart(Len(h.chunkSummaries) - 1, h.lastCall.value)
    /\ FirstMergeRequest =>
          /\ Len(h.chunkSummaries) = Len(h.chunks)
          /\ h.summaries = h.chunkSummaries
          /\ h.site = "mergeOne" => h.content = join(h.chunkSummaries)
          /\ h.site = "mergeLoop" =>
                /\ h.mergeChunks = splitIntoChunks(join(h.chunkSummaries),
                                                   SUMMARIZE_CHUNK_SIZE)
                /\ h.content = h.mergeChunks[1]

\* The merge of a three-chunk request begins.
C12_MergeOfThree ==
    /\ FirstMergeRequest
    /\ Len(h.chunkSummaries) = 3

(***************************************************************************)
(* C13.  Every Result handed to send() carries non-empty text, and when    *)
(* the final summary returned by the service is empty after trimming, on   *)
(* the single-chunk path or after the merge, the Result is the fixed       *)
(* placeholder.                                                            *)
(***************************************************************************)
C13_ResultNeverEmpty ==
    /\ \A k \in OfType("summary") : h.sent[k].text # <<>>
    /\ (/\ h.lastCall.outcome = "ok"
        /\ h.lastCall.site \in {"primary", "mergeOne"}
        /\ h.lastCall.value = <<>>) =>
          (Done /\ Last(h.sent) = Summary(Placeholder))

\* The merge returned an empty summary.
C13_EmptyMergeResult ==
    /\ h.lastCall.outcome = "ok"
    /\ h.lastCall.site = "mergeOne"
    /\ h.lastCall.value = <<>>
    /\ Done

(***************************************************************************)
(* splitIntoChunks on its own (part_010:20-44): every text over a small    *)
(* alphabet up to a length, and every size from 1 up.                      *)
(***************************************************************************)
MaxTextLen == 5
MaxSplitSize == 4

Alphabet == {"a", " ", "\n", "."}

SplitTexts == UNION {[1..n -> Alphabet] : n \in 0..MaxTextLen}

InitSplit ==
    /\ h = InitH(FALSE, FALSE) /\ cancelled = FALSE
    /\ ocr = Unused /\ page = Unused /\ meeting = Unused
    /\ \E text \in SplitTexts, maxSize \in 1..MaxSplitSize :
          split = [pc |-> "called", text |-> text, maxSize |-> maxSize, chunks |-> <<>>]

Split ==
    /\ split.pc = "called"
    /\ split' = [split EXCEPT !.pc = "returned",
                              !.chunks = splitIntoChunks(split.text, split.maxSize)]
    /\ UNCHANGED <<h, cancelled, ocr, page, meeting>>

NextSplit == Split

SpecSplit == InitSplit /\ [][NextSplit]_vars

Returned == split.pc = "returned"

(***************************************************************************)
(* C14.  Every chunk returned by splitIntoChunks, the last included, is no *)
(* longer than maxSize, and no returned chunk is the empty string, save    *)
(* for the one case in which the function does return it: a blank text no  *)
(* longer than maxSize yields the single chunk "".                         *)
(***************************************************************************)
ChunksWithinSize ==
    \A k \in 1..Len(split.chunks) : Len(split.chunks[k]) <= split.maxSize

NoEmptyChunk ==
    \A k \in 1..Len(split.chunks) : split.chunks[k] # <<>>

BlankAndShort == IsBlank(split.text) /\ Len(split.text) <= split.maxSize

C14_ChunkBounds ==
    Returned =>
        /\ ChunksWithinSize
        /\ IF BlankAndShort THEN split.chunks = << <<>> >> ELSE NoEmptyChunk

\* The claim as worded: no returned chunk is empty, for every text.
C14_NoEmptyChunkEver ==
    Returned => (ChunksWithinSize /\ NoEmptyChunk)

\* A text of white space only, longer than the size, was split: its empty
\* chunks were dropped.
C14_LongBlankSplit ==
    /\ Returned
    /\ IsBlank(split.text)
    /\ Len(split.text) > split.maxSize

(***************************************************************************)
(* C15.  The words of the chunks, taken in index order, are exactly the    *)
(* words of the text: the same white-space-delimited words in the same     *)
(* order, none dropped, duplicated or broken in two.                       *)
(***************************************************************************)
\* The length of the run of non-space characters that s begins with.
RunLength(s) ==
    CHOOSE n \in 0..Len(s) :
        /\ \A k \in 1..n : ~IsSpace(s[k])
        /\ n = Len(s) \/ IsSpace(s[n + 1])

\* The white-space-delimited words of s.
RECURSIVE Words(_)
Words(s) ==
    IF s = <<>> THEN <<>>
    ELSE IF IsSpace(Head(s)) THEN Words(Tail(s))
    ELSE <<SubSeq(s, 1, RunLength(s))>> \o Words(SubSeq(s, RunLength(s) + 1, Len(s)))

\* The chunks joined in index order with a space between them.
RECURSIVE joinWithSpace(_)
joinWithSpace(parts) ==
    IF parts = <<>> THEN <<>>
    ELSE parts[1] \o <<" ">> \o joinWithSpace(Tail(parts))

C15_WordsPreserved ==
    Returned => Words(joinWithSpace(split.chunks)) = Words(split.text)

\* Every word of the text is itself no longer than the size.
AllWordsFit ==
    \A k \in 1..Len(Words(split.text)) : Len(Words(split.text)[k]) <= split.maxSize

\* The same for the texts whose words all fit the size: it fails as well.
C15_FittingWordsPreserved ==
    (Returned /\ AllWordsFit) => Words(joinWithSpace(split.chunks)) = Words(split.text)

(***************************************************************************)
(* C16.  splitIntoChunks returns at least one chunk for every text and     *)
(* every size.                                                             *)
(***************************************************************************)
C16_AtLeastOneChunk ==
    Returned => Len(split.chunks) >= 1

(***************************************************************************)
(* The OCR fallback of extractText for a PDF (part_011:140-153), with      *)
(* createOcrFallback, extractTextFromImages and callVisionApi              *)
(* (part_010:50-112, 208-224) and pdfPagesToImages (lib/pdf-to-images.ts). *)
(* ocr holds the locals of one extractText call and of the fallback:       *)
(* text (of extractText), images (their page numbers), i, chunks, the      *)
(* prompt of the vision call in flight; outs records what the vision       *)
(* service finally returned for each batch, failedPage the page whose      *)
(* vision call failed (0: none).                                           *)
(***************************************************************************)
GROQ_IMAGES_PER_REQUEST == 1
MinTextLength == 50

\* Bound on the pages that pdfPagesToImages rasterizes (20 in the program).
MaxOcrPages == 3

\* "(Konten halaman ini tidak dapat diekstrak.)" (part_010:219)
OcrPlaceholder ==
    <<"(", "K", "o", "n", "t", "e", "n", " ", "h", "a", "l", "a", "m", "a", "n", " ",
      "i", "n", "i", " ", "t", "i", "d", "a", "k", " ", "d", "a", "p", "a", "t", " ",
      "d", "i", "e", "k", "s", "t", "r", "a", "k", ".", ")">>

\* `[Halaman ${pageNum}]\n` (part_010:218-219)
pageMarker(pageNum) ==
    <<"[", "H", "a", "l", "a", "m", "a", "n", " ">> \o Digits(pageNum) \o <<"]", "\n">>

\* A mutant of ocrEntry: a page without text contributes nothing.
ocrEntryOnlyIfText(pageNum, extracted) ==
    IF trim(extracted) # <<>> THEN pageMarker(pageNum) \o extracted ELSE <<>>

\* The entry pushed for one batch (part_010:216-220).
ocrEntry(pageNum, extracted) ==
    IF trim(extracted) # <<>>
    THEN pageMarker(pageNum) \o extracted
    ELSE pageMarker(pageNum) \o OcrPlaceholder

\* What pdf-parse may return: nothing, too little, enough.
PdfTexts == {<<>>, <<"a", "a", " ", "a">>, Rep("a", MinTextLength)}

\* What the vision service may put in the content of its answer.
VisionOutputs == {<<" ">>, <<"x">>, <<"y", " ">>}

\* images.slice(i, i + GROQ_IMAGES_PER_REQUEST), as page numbers.
batchAt(images, i) ==
    SubSeq(images, i + 1, Min(i + GROQ_IMAGES_PER_REQUEST, Len(images)))

\* extractText returns text.
ocrReturn(o, text) == [o EXCEPT !.pc = "done", !.result = text]

\* The loop of the fallback at index i (part_010:212-222): the next vision
\* call with the main prompt, or the join of the entries.
ocrLoop(o, i) ==
    IF i < Len(o.images)
    THEN [o EXCEPT !.pc = "vision", !.i = i, !.prompt = "main",
                   !.calls = Append(@, 1)]
    ELSE ocrReturn([o EXCEPT !.i = i, !.text = join(o.chunks)], join(o.chunks))

\* extractTextFromPdf returned text (part_011:141-143).
stepParsed(o, text) ==
    IF IsBlank(text) \/ Len(text) < MinTextLength
    THEN [o EXCEPT !.pc = "rasterize", !.text = text, !.primary = text]
    ELSE ocrReturn([o EXCEPT !.text = text, !.primary = text], text)

\* pdfPagesToImages returned the images of pages 1..n (part_011:145-148).
stepRasterized(o, n) ==
    LET o1 == [o EXCEPT !.images = [k \in 1..n |-> k]]
    IN  IF n > 0 THEN ocrLoop(o1, 0) ELSE ocrReturn(o1, o1.text)

\* A mutant of stepOcrThrew: the entries read before the failure are returned.
stepOcrThrewKeepingEntries(o) ==
    ocrReturn([o EXCEPT !.threw = TRUE, !.text = join(o.chunks)], join(o.chunks))

\* pdfPagesToImages threw, or a vision call did: the catch of extractText
\* keeps the original text (part_011:149-151).
stepOcrThrew(o) == ocrReturn([o EXCEPT !.threw = TRUE], o.text)

\* The answers of the first calls, with this one when it is a first call.
firstsWith(o, extracted) ==
    IF o.prompt = "main" THEN Append(o.firsts, extracted) ELSE o.firsts

\* A mutant of stepVisionOk: a blank answer is not asked for again.
stepVisionOkWithoutRetry(o, out) ==
    LET extracted == trim(out)
        batch == batchAt(o.images, o.i)
    IN  ocrLoop([o EXCEPT !.chunks = Append(@, ocrEntry(batch[1], extracted)),
                          !.outs = Append(@, extracted),
                          !.firsts = firstsWith(o, extracted)],
                o.i + GROQ_IMAGES_PER_REQUEST)

\* callVisionApi returned out (part_010:85, 104-111, 214-221).  calls holds
\* the number of vision calls made for each batch so far, firsts the answers
\* of the first calls.
stepVisionOk(o, out) ==
    LET extracted == trim(out)
        batch == batchAt(o.images, o.i)
    IN  IF o.prompt = "main" /\ extracted = <<>> /\ Len(batch) = 1
        THEN [o EXCEPT !.prompt = "fallback",
                       !.firsts = firstsWith(o, extracted),
                       !.calls[Len(o.calls)] = @ + 1]
        ELSE ocrLoop([o EXCEPT !.chunks = Append(@, ocrEntry(batch[1], extracted)),
                               !.outs = Append(@, extracted),
                               !.firsts = firstsWith(o, extracted)],
                     o.i + GROQ_IMAGES_PER_REQUEST)

\* callVisionApi threw on a non-ok response (part_010:77-80).
stepVisionFailed(o) ==
    stepOcrThrew([o EXCEPT !.failedPage = batchAt(o.images, o.i)[1]])

\* The request for a PDF, suspended at `await extractText(...)` (route.ts:137).
AwaitingExtractText == stepBuffer(stepStart(InitH(FALSE, TRUE), FALSE), FALSE)

InitOcr ==
    /\ h = AwaitingExtractText /\ cancelled = FALSE
    /\ split = Unused /\ page = Unused /\ meeting = Unused
    /\ ocr = [pc |-> "parse", text |-> <<>>, primary |-> <<>>, images |-> <<>>,
              i |-> 0, chunks |-> <<>>, prompt |-> "", outs |-> <<>>,
              firsts |-> <<>>, calls |-> <<>>, failedPage |-> 0, threw |-> FALSE,
              result |-> <<>>]

Parsed ==
    /\ ocr.pc = "parse"
    /\ \E text \in PdfTexts : ocr' = stepParsed(ocr, text)
    /\ UNCHANGED <<h, cancelled, split, page, meeting>>

Rasterized ==
    /\ ocr.pc = "rasterize"
    /\ \E n \in 0..MaxOcrPages : ocr' = stepRasterized(ocr, n)
    /\ UNCHANGED <<h, cancelled, split, page, meeting>>

RasterizeFailed ==
    /\ ocr.pc = "rasterize"
    /\ ocr' = stepOcrThrew(ocr)
    /\ UNCHANGED <<h, cancelled, split, page, meeting>>

VisionOk ==
    /\ ocr.pc = "vision"
    /\ \E out \in VisionOutputs : ocr' = stepVisionOk(ocr, out)
    /\ UNCHANGED <<h, cancelled, split, page, meeting>>

VisionFailed ==
    /\ ocr.pc = "vision"
    /\ ocr' = stepVisionFailed(ocr)
    /\ UNCHANGED <<h, cancelled, split, page, meeting>>

\* extractText returned to POST, which goes on with the text (route.ts:137-186).
TextReturned ==
    /\ ocr.pc = "done" /\ h.pc = "extract"
    /\ h' = stepExtracted(h, ocr.result, cancelled)
    /\ UNCHANGED <<cancelled, ocr, split, page, meeting>>

NextOcr ==
    \/ Parsed
    \/ Rasterized
    \/ RasterizeFailed
    \/ VisionOk
    \/ VisionFailed
    \/ TextReturned
    \/ Cancel

SpecOcr == InitOcr /\ [][NextOcr]_vars

\* The fallback ran over all the pages and every vision call returned.
OcrCompleted ==
    /\ ocr.pc = "done"
    /\ ocr.images # <<>>
    /\ ocr.i >= Len(ocr.images)

\* Does sub occur in s?
Contains(s, sub) == \E k \in 0..Len(s) : OccursAt(s, sub, k)

(***************************************************************************)
(* C17.  When the OCR fallback has run over the rasterized pages 1..k and  *)
(* every vision call returned, the text it hands on is the join of exactly *)
(* one entry per page in ascending page order, each entry beginning with   *)
(* its page's marker; the entry of a page whose OCR output is blank is the *)
(* marker followed by the placeholder.                                     *)
(***************************************************************************)
C17_OneEntryPerPage ==
    OcrCompleted =>
        /\ Len(ocr.chunks) = Len(ocr.images)
        /\ \A k \in 1..Len(ocr.chunks) :
              /\ Len(ocr.chunks[k]) > Len(pageMarker(ocr.images[k]))
              /\ SubSeq(ocr.chunks[k], 1, Len(pageMarker(ocr.images[k])))
                    = pageMarker(ocr.images[k])
              /\ ocr.outs[k] = <<>> =>
                    ocr.chunks[k] = pageMarker(ocr.images[k]) \o OcrPlaceholder
              /\ ocr.outs[k] # <<>> =>
                    ocr.chunks[k] = pageMarker(ocr.images[k]) \o ocr.outs[k]
        /\ ocr.result = join(ocr.chunks)

\* Three pages were read, and the OCR output of the second was blank.
C17_BlankMiddlePage ==
    /\ OcrCompleted
    /\ Len(ocr.images) = 3
    /\ ocr.outs[2] = <<>>
    /\ ocr.outs[1] # <<>>

(***************************************************************************)
(* C18.  When the vision call of one page of a multi-page document fails,  *)
(* the text handed on still contains the entries of the pages read before  *)
(* it, and the failing page's marker with the placeholder.                 *)
(***************************************************************************)
C18_PageFailureRecovered ==
    (ocr.pc = "done" /\ ocr.failedPage # 0 /\ Len(ocr.images) > 1) =>
        /\ \A k \in 1..Len(ocr.chunks) : Contains(ocr.result, ocr.chunks[k])
        /\ Contains(ocr.result, pageMarker(ocr.failedPage) \o OcrPlaceholder)

(***************************************************************************)
(* The cached Groq API key of the page (part_003:9-10, 235-253, 266-289).  *)
(* page holds the clock (Date.now(), in ms), the localStorage entry, the   *)
(* component's groqApiKey state while the page is open, when the user last *)
(* entered a key, and what the last loadCachedGroqApiKey returned, when.   *)
(***************************************************************************)
GROQ_API_KEY_CACHE_DURATION_MS == 3600000

\* The clock advances in steps of TickMs up to MaxNow.
TickMs == 1200000
MaxNow == 7200000

Never == -1

\* localStorage has no entry under the cache key.
NoEntry == [present |-> FALSE, key |-> <<>>, expiresAt |-> 0]

\* What the user may type into the key field.
KeyInputs == {<<"k">>, <<"j", " ">>, <<" ">>}

\* loadCachedGroqApiKey (part_003:235-247): the key it returns.
loadCachedGroqApiKey(stored, now) ==
    IF stored.present /\ stored.key # <<>> /\ stored.expiresAt # 0 /\ now < stored.expiresAt
    THEN stored.key
    ELSE <<>>

\* loadCachedGroqApiKey: the entry it leaves in localStorage.
storedAfterLoad(stored, now) ==
    IF loadCachedGroqApiKey(stored, now) # <<>> THEN stored ELSE NoEntry

\* saveGroqApiKeyToCache (part_003:249-253): the entry it leaves.
saveGroqApiKeyToCache(stored, key, now) ==
    IF trim(key) = <<>> THEN stored
    ELSE [present |-> TRUE, key |-> trim(key),
          expiresAt |-> now + GROQ_API_KEY_CACHE_DURATION_MS]

\* useEffect(() => { if (groqApiKey.trim()) saveGroqApiKeyToCache(groqApiKey) },
\* [groqApiKey]) (part_003:287-289), run after groqApiKey became key.
keyEffect(stored, key, now) ==
    IF trim(key) # <<>> THEN saveGroqApiKeyToCache(stored, key, now) ELSE stored

InitCache ==
    /\ h = InitH(FALSE, FALSE) /\ cancelled = FALSE
    /\ split = Unused /\ ocr = Unused /\ meeting = Unused
    /\ page = [now |-> 0, stored |-> NoEntry, mounted |-> FALSE, groqApiKey |-> <<>>,
               entered |-> Never, loaded |-> <<>>, loadedAt |-> Never]

\* Time passes.
Tick ==
    /\ page.now + TickMs <= MaxNow
    /\ page' = [page EXCEPT !.now = @ + TickMs]
    /\ UNCHANGED <<h, cancelled, split, ocr, meeting>>

\* The page is loaded: Home mounts with groqApiKey = "", the mount effect sets
\* it to loadCachedGroqApiKey() (part_003:283-285), and the key effect runs
\* for the new value when it differs from "".
Mount ==
    /\ ~page.mounted
    /\ LET key == loadCachedGroqApiKey(page.stored, page.now)
           stored == storedAfterLoad(page.stored, page.now)
       IN  page' = [page EXCEPT !.mounted = TRUE,
                                !.groqApiKey = key,
                                !.loaded = key,
                                !.loadedAt = page.now,
                                !.stored = keyEffect(stored, key, page.now)]
    /\ UNCHANGED <<h, cancelled, split, ocr, meeting>>

\* The user enters a key in the form: setGroqApiKey, then the key effect.
EnterKey ==
    /\ page.mounted
    /\ \E key \in KeyInputs :
          /\ key # page.groqApiKey
          /\ page' = [page EXCEPT !.groqApiKey = key,
                                  !.entered = IF trim(key) # <<>> THEN page.now ELSE @,
                                  !.stored = keyEffect(@, key, page.now)]
    /\ UNCHANGED <<h, cancelled, split, ocr, meeting>>

\* The page is closed or reloaded.
Unmount ==
    /\ page.mounted
    /\ page' = [page EXCEPT !.mounted = FALSE, !.groqApiKey = <<>>]
    /\ UNCHANGED <<h, cancelled, split, ocr, meeting>>

NextCache ==
    \/ Tick
    \/ Mount
    \/ EnterKey
    \/ Unmount

SpecCache == InitCache /\ [][NextCache]_vars

(***************************************************************************)
(* C19.  A call of loadCachedGroqApiKey made one hour or more after the    *)
(* user last entered the key returned the empty string, and the cache      *)
(* holds no entry, however many page loads happened in between.            *)
(***************************************************************************)
LoadedAfterExpiry ==
    /\ page.entered # Never
    /\ page.loadedAt # Never
    /\ page.loadedAt >= page.entered + GROQ_API_KEY_CACHE_DURATION_MS

C19_KeyExpiresAfterOneHour ==
    LoadedAfterExpiry => (page.loaded = <<>> /\ ~page.stored.present)

(***************************************************************************)
(* mergeParticipantsBySpeaker and deriveAgreementFromPoints of the meeting *)
(* analysis (app/api/summarize-meeting/route.ts:180-231).  A participant   *)
(* is [speaker, agreement_confidence, points, summary]; points are given   *)
(* by their stances; a missing agreement_confidence is NoConfidence, a     *)
(* missing summary the empty string.  (risks are concatenated like points  *)
(* and read by nothing; they are left out.)                                *)
(***************************************************************************)
MaxParticipants == 2

NoConfidence == 0

Participant(speaker, confidence, points, summary) ==
    [speaker |-> speaker, agreement_confidence |-> confidence,
     points |-> points, summary |-> summary]

\* What the model may return for one participant.
Speakers == {<<"A">>, <<"a", " ">>, <<"b">>}
Confidences == {NoConfidence, 3}
PointLists == {<<>>, <<"support">>, <<"oppose", "oppose">>, <<"support", "oppose">>,
               <<"mixed", "support">>}
Summaries == {<<>>, <<"s">>}

ParticipantInputs ==
    {Participant(sp, cf, pts, sm) :
        sp \in Speakers, cf \in Confidences, pts \in PointLists, sm \in Summaries}

\* String.prototype.toLowerCase, on the letters of the model.
lowerChar(c) == IF c = "A" THEN "a" ELSE IF c = "B" THEN "b" ELSE c
toLowerCase(s) == [k \in 1..Len(s) |-> lowerChar(s[k])]

\* (p.speaker ?? "").trim().toLowerCase() || "(unknown)" (route.ts:204)
speakerKey(speaker) ==
    IF toLowerCase(trim(speaker)) = <<>>
    THEN <<"(", "u", "n", "k", "n", "o", "w", "n", ")">>
    ELSE toLowerCase(trim(speaker))

\* points.filter((pt) => pt.stance === stance).length
countStance(points, stance) ==
    Cardinality({k \in 1..Len(points) : points[k] = stance})

\* deriveAgreementFromPoints (route.ts:188-199); NoConfidence for null.
deriveAgreementFromPoints(points) ==
    LET oppose == countStance(points, "oppose")
        support == countStance(points, "support")
        total == Len(points)
    IN  IF total = 0 THEN NoConfidence
        ELSE IF oppose = total THEN 1
        ELSE IF support = total THEN 5
        ELSE IF support > oppose THEN 4
        ELSE IF oppose > support THEN 2
        ELSE 3

\* The position in the Map (a sequence in insertion order) of key, 0 if none.
indexOfKey(bySpeaker, key) ==
    IF \E k \in 1..Len(bySpeaker) : speakerKey(bySpeaker[k].speaker) = key
    THEN CHOOSE k \in 1..Len(bySpeaker) : speakerKey(bySpeaker[k].speaker) = key
    ELSE 0

\* The else branch of the first loop (route.ts:215-220).
mergeInto(existing, p) ==
    [existing EXCEPT
        !.points = @ \o p.points,
        !.agreement_confidence =
            IF p.agreement_confidence # NoConfidence /\ @ = NoConfidence
            THEN p.agreement_confidence ELSE @,
        !.summary = IF p.summary # <<>> /\ @ = <<>> THEN p.summary ELSE @]

\* The first loop (route.ts:203-222) from the k-th participant on.
RECURSIVE bySpeakerLoop(_, _, _)
bySpeakerLoop(participants, k, bySpeaker) ==
    IF k > Len(participants) THEN bySpeaker
    ELSE LET p == participants[k]
             at == indexOfKey(bySpeaker, speakerKey(p.speaker))
         IN  IF at = 0
             THEN bySpeakerLoop(participants, k + 1, Append(bySpeaker, p))
             ELSE bySpeakerLoop(participants, k + 1,
                                [bySpeaker EXCEPT ![at] = mergeInto(@, p)])

\* The second loop (route.ts:224-229), for one merged participant.
withDerivedAgreement(m) ==
    IF deriveAgreementFromPoints(m.points) # NoConfidence /\ Len(m.points) > 0
    THEN [m EXCEPT !.agreement_confidence = deriveAgreementFromPoints(m.points)]
    ELSE m

mergeParticipantsBySpeaker(participants) ==
    LET merged == bySpeakerLoop(participants, 1, <<>>)
    IN  [k \in 1..Len(merged) |-> withDerivedAgreement(merged[k])]

InitMeeting ==
    /\ h = InitH(FALSE, FALSE) /\ cancelled = FALSE
    /\ split = Unused /\ ocr = Unused /\ page = Unused
    /\ \E n \in 1..MaxParticipants :
          \E participants \in [1..n -> ParticipantInputs] :
              meeting = [pc |-> "parsed", participants |-> participants, merged |-> <<>>]

\* raw.participants = mergeParticipantsBySpeaker(raw.participants) (route.ts:394)
MergeParticipants ==
    /\ meeting.pc = "parsed"
    /\ meeting' = [meeting EXCEPT !.pc = "merged",
                                  !.merged = mergeParticipantsBySpeaker(meeting.participants)]
    /\ UNCHANGED <<h, cancelled, split, ocr, page>>

NextMeeting == MergeParticipants

SpecMeeting == InitMeeting /\ [][NextMeeting]_vars

(***************************************************************************)
(* C20.  A participant of the response for whom the model supplied an      *)
(* agreement_confidence (in the first of its entries that has one) carries *)
(* that supplied value.                                                    *)
(***************************************************************************)
\* The entries of the input for the speaker of m that supply a confidence.
SuppliedFor(m) ==
    {k \in 1..Len(meeting.participants) :
        /\ speakerKey(meeting.participants[k].speaker) = speakerKey(m.speaker)
        /\ meeting.participants[k].agreement_confidence # NoConfidence}

C20_SuppliedConfidenceKept ==
    meeting.pc = "merged" =>
        \A j \in 1..Len(meeting.merged) :
            LET m == meeting.merged[j]
            IN  SuppliedFor(m) # {} =>
                    m.agreement_confidence =
                        meeting.participants[CHOOSE k \in SuppliedFor(m) :
                            \A n \in SuppliedFor(m) : k <= n].agreement_confidence

(***************************************************************************)
(* C21.  Whenever a 429 answer is retried, the sleep begun before the next *)
(* attempt is the base wait plus the margin of one second, the base wait   *)
(* being the duration the error body suggests (rounded up to a whole       *)
(* millisecond) when it suggests one and 20 seconds otherwise.             *)
(***************************************************************************)
\* The base wait in ms for the body of the 429 answer being retried.
BaseWaitMs(hint) ==
    IF hint # NoHint THEN (hint + 999) \div 1000 ELSE DefaultRetryMs

C21_BackoffIsBasePlusMargin ==
    h.pc = "backoff" => h.sleepMs = BaseWaitMs(h.lastError.hint) + RetryMarginMs

(***************************************************************************)
(* C22.  In the chunk loop and in every level of the merge, the            *)
(* inter-chunk delay begins in the step in which a call returned, after    *)
(* every call but the loop's last and after no other step, and the next    *)
(* call of the loop is made when the delay ends: a loop over N pieces      *)
(* takes N - 1 delays.                                                     *)
(***************************************************************************)
\* The step receives the answer that ends a call of the chunk loop.
ChunkCallReturned ==
    h.pc = "fetch" /\ h.site = "chunk" /\ h' # h /\ h'.lastCall.outcome = "ok"

\* The step receives the answer that ends a call of a merge level's loop.
MergeCallReturned ==
    h.pc = "fetch" /\ h.site = "mergeLoop" /\ h' # h /\ h'.lastCall.outcome = "ok"

\* The step begins an inter-chunk delay.
DelayBegins == h' # h /\ h'.pc \in {"chunkDelay", "mergeDelay"}

C22_DelayAfterEachCallButLast ==
    [][/\ ChunkCallReturned =>
            IF h.i < Len(h.chunks) - 1
            THEN /\ h'.pc = "chunkDelay" /\ h'.sleepMs = SUMMARIZE_CHUNK_DELAY_MS
                 /\ ~h'.issued /\ h'.i = h.i
            ELSE h'.pc # "chunkDelay" /\ h'.sleepMs = 0
       /\ MergeCallReturned =>
            IF h.mergeI < Len(h.mergeChunks) - 1
            THEN /\ h'.pc = "mergeDelay" /\ h'.sleepMs = SUMMARIZE_CHUNK_DELAY_MS
                 /\ ~h'.issued /\ h'.mergeI = h.mergeI
            ELSE h'.pc # "mergeDelay" /\ h'.sleepMs = 0
       /\ DelayBegins => ChunkCallReturned \/ MergeCallReturned
       /\ (h.pc = "chunkDelay" /\ h' # h) =>
            h'.pc = "fetch" /\ h'.issued /\ h'.site = "chunk" /\ h'.i = h.i + 1
       /\ (h.pc = "mergeDelay" /\ h' # h) =>
            /\ h'.pc = "fetch" /\ h'.issued /\ h'.site = "mergeLoop"
            /\ h'.mergeI = h.mergeI + 1 /\ h'.mergeChunks = h.mergeChunks]_vars

\* Witness: the delay inside a merge level, after the chunk loop of three
\* chunks took its delays.
C22_MergeLevelDelay ==
    /\ h.pc = "mergeDelay" /\ h.sleepMs = SUMMARIZE_CHUNK_DELAY_MS
    /\ Len(h.chunks) = 3 /\ Len(h.chunkSummaries) = 3
    /\ Len(h.merged) = 1 /\ Len(h.mergeChunks) >= 2

(***************************************************************************)
(* C27.  A generation request issued in the very step that received the    *)
(* answer to the previous one, with no suspension between them, is the     *)
(* first request of a merge: it follows the last call of the chunk loop    *)
(* or the last call of a merge level.  Every other request is issued when  *)
(* an inter-chunk delay or a backoff ends (or is the request's first).     *)
(***************************************************************************)
\* The step issues a generation request.
RequestIssued == h' # h /\ h'.issued

C27_NoSuspensionOnlyAtLoopExit ==
    [][/\ (RequestIssued /\ h.pc = "fetch") =>
            /\ h'.lastCall.outcome = "ok"
            /\ h'.site \in {"mergeOne", "mergeLoop"} /\ h'.mergeI = 0
            /\ \/ h.site = "chunk" /\ h.i = Len(h.chunks) - 1
               \/ h.site = "mergeLoop" /\ h.mergeI = Len(h.mergeChunks) - 1
       /\ (RequestIssued /\ h.pc # "fetch") =>
            \/ h.pc \in {"backoff", "chunkDelay", "mergeDelay"}
            \/ h.pc = "extract" /\ h.chunkSummaries = <<>> /\ h.summaries = <<>>]_vars

\* C27 as stated: every request after the first is issued when a suspension
\* ends, never in the step that received the previous request's answer.
C27_SuspensionBetweenRequests ==
    [][RequestIssued => h.pc # "fetch"]_vars

\* Witness: the first request of the second merge level is in flight, issued
\* in the step that received the last answer of the first level.
C27_NextLevelRequestedAtOnce ==
    /\ h.pc = "fetch" /\ h.issued /\ h.lastCall.outcome = "ok"
    /\ h.lastCall.site = "mergeLoop" /\ h.site \in {"mergeOne", "mergeLoop"}

(***************************************************************************)
(* splitIntoChunks one iteration at a time (part_010:20-44): the state is  *)
(* the function's locals, and each pass of the while loop is one step.     *)
(***************************************************************************)
\* part_010:21-23: the early return, or the loop's initial state.
splitEnter(sp) ==
    IF Len(sp.text) <= sp.maxSize
    THEN [sp EXCEPT !.pc = "returned", !.chunks = <<trim(sp.text)>>]
    ELSE [sp EXCEPT !.pc = "loop", !.remaining = sp.text]

\* part_010:43: return chunks.filter((c) => c.length > 0)
splitReturn(sp, chunks) ==
    [sp EXCEPT !.pc = "returned", !.chunks = SelectSeq(chunks, LAMBDA c : Len(c) > 0)]

\* part_010:24-42: the loop's test and one pass of its body.
splitIterate(sp) ==
    IF Len(sp.remaining) = 0 THEN splitReturn(sp, sp.chunks)
    ELSE IF Len(sp.remaining) <= sp.maxSize
    THEN splitReturn([sp EXCEPT !.iterations = @ + 1],
                     Append(sp.chunks, trim(sp.remaining)))
    ELSE LET breakPoint == breakPointOf(sp.remaining, sp.maxSize)
         IN  [sp EXCEPT !.iterations = @ + 1,
                        !.segment = SliceTo(sp.remaining, sp.maxSize),
                        !.breakPoint = breakPoint,
                        !.chunks = Append(@, trim(SliceTo(sp.remaining, breakPoint))),
                        !.remaining = trim(SliceFrom(sp.remaining, breakPoint))]

InitSplitLoop ==
    /\ h = InitH(FALSE, FALSE) /\ cancelled = FALSE
    /\ ocr = Unused /\ page = Unused /\ meeting = Unused
    /\ \E text \in SplitTexts, maxSize \in 1..MaxSplitSize :
          split = [pc |-> "called", text |-> text, maxSize |-> maxSize,
                   chunks |-> <<>>, remaining |-> <<>>, segment |-> <<>>,
                   breakPoint |-> 0, iterations |-> 0]

Enter ==
    /\ split.pc = "called"
    /\ split' = splitEnter(split)
    /\ UNCHANGED <<h, cancelled, ocr, page, meeting>>

\* The pass counter is capped one above the length of the text.
Iterate ==
    /\ split.pc = "loop"
    /\ split.iterations <= Len(split.text)
    /\ split' = splitIterate(split)
    /\ UNCHANGED <<h, cancelled, ocr, page, meeting>>

NextSplitLoop == Enter \/ Iterate

SpecSplitLoop == InitSplitLoop /\ [][NextSplitLoop]_vars

\* The step is a pass of the loop that cuts the remaining text.
CutStep ==
    split.pc = "loop" /\ Len(split.remaining) > split.maxSize /\ split' # split

(***************************************************************************)
(* C23.  When the remaining text is longer than maxSize, the cut is made   *)
(* immediately after the right-most occurrence, in the window of the first *)
(* maxSize characters, of the first marker in the order "\n\n", "\n",      *)
(* ". ", " " whose right-most occurrence starts at or after maxSize * 0.5  *)
(* (an earlier marker wins over a later one further right); when no marker *)
(* qualifies the cut is at exactly maxSize.                                *)
(***************************************************************************)
Markers == << <<"\n", "\n">>, <<"\n">>, <<".", " ">>, <<" ">> >>

\* The 0-based start of the right-most occurrence of marker in window, or -1.
RightMost(window, marker) ==
    LET starts == {k \in 0..Len(window) :
                      /\ k + Len(marker) <= Len(window)
                      /\ SubSeq(window, k + 1, k + Len(marker)) = marker}
    IN  IF starts = {} THEN -1 ELSE CHOOSE k \in starts : \A m \in starts : m <= k

\* The markers whose right-most occurrence is in the second half.
Qualifying(window, maxSize) ==
    {n \in 1..Len(Markers) : RightMost(window, Markers[n]) >= 0
                             /\ 2 * RightMost(window, Markers[n]) >= maxSize}

ExpectedCut(window, maxSize) ==
    LET q == Qualifying(window, maxSize)
    IN  IF q = {} THEN maxSize
        ELSE LET n == CHOOSE m \in q : \A o \in q : m <= o
             IN  RightMost(window, Markers[n]) + Len(Markers[n])

C23_CutAfterPreferredMarker ==
    [][CutStep =>
         LET window == SubSeq(split.remaining, 1, split.maxSize)
             cut == ExpectedCut(window, split.maxSize)
         IN  /\ split'.breakPoint = cut
             /\ split'.chunks = Append(split.chunks, trim(SubSeq(split.remaining, 1, cut)))
             /\ split'.remaining =
                  trim(SubSeq(split.remaining, cut + 1, Len(split.remaining)))]_vars

\* Witness: the cut was made after a newline although a space lies further
\* to the right in the window.
C23_EarlierMarkerWon ==
    /\ split.pc \in {"loop", "returned"} /\ split.breakPoint >= 1
    /\ split.segment[split.breakPoint] = "\n"
    /\ \E k \in split.breakPoint + 1..Len(split.segment) : split.segment[k] = " "

(***************************************************************************)
(* C24.  The loop of splitIntoChunks terminates for every text and every   *)
(* maxSize >= 1: every pass either returns or leaves a strictly shorter    *)
(* remaining text, and the number of passes never exceeds the length of    *)
(* the text.                                                               *)
(***************************************************************************)
C24_EveryPassShortens ==
    [][(split.pc = "loop" /\ split' # split) =>
         /\ split'.iterations <= Len(split.text)
         /\ \/ split'.pc = "returned"
            \/ /\ split'.pc = "loop"
               /\ split'.iterations = split.iterations + 1
               /\ Len(split'.remaining) < Len(split.remaining)]_vars

\* Witness: the function returned after as many passes as the text has
\* characters.
C24_ReturnedAfterLengthPasses ==
    /\ split.pc = "returned" /\ split.iterations = Len(split.text)
    /\ split.iterations >= 3

(***************************************************************************)
(* C29.  For every text and every maxSize >= 1, the chunks returned by     *)
(* splitIntoChunks, concatenated in order and with all whitespace removed, *)
(* are the text with all whitespace removed: only whitespace is lost.      *)
(***************************************************************************)
\* s without its whitespace characters.
withoutSpace(s) == SelectSeq(s, LAMBDA c : ~IsSpace(c))

RECURSIVE concat(_)
concat(parts) ==
    IF parts = <<>> THEN <<>> ELSE Head(parts) \o concat(Tail(parts))

C29_OnlyWhitespaceLost ==
    Returned => withoutSpace(concat(split.chunks)) = withoutSpace(split.text)

\* Witness: a split that cut inside a word and dropped whitespace at a cut.
C29_HardCutAndTrimmed ==
    /\ Returned /\ Len(split.chunks) >= 2
    /\ Len(split.chunks[1]) = split.maxSize /\ split.maxSize >= 2
    /\ \A k \in 1..split.maxSize + 1 : ~IsSpace(split.text[k])
    /\ Len(concat(split.chunks)) < Len(split.text)

(***************************************************************************)
(* C28.  On every path the response stream is closed exactly once: close   *)
(* is called at most once while the request runs, exactly once when it has *)
(* ended, and never on a stream that is already closed.                    *)
(***************************************************************************)
C28_ClosedExactlyOnce ==
    /\ h.closeCalls <= 1
    /\ Done => h.closeCalls = 1 /\ ~h.startRejected

(***************************************************************************)
(* C26.  When a text is split into N >= 2 chunks whose labelled summaries, *)
(* joined, fit the chunk size, the request makes N ChunkPartial calls in   *)
(* index order and then exactly one Merge call, whose content is the join  *)
(* of the N summaries, the k-th labelled with part number k, and whose     *)
(* output is the text of the Result; a call that meets no 429 is one       *)
(* request, so N + 1 requests are issued.                                  *)
(***************************************************************************)
\* Every chunk has its summary and the summaries joined fit one chunk.
SummariesFit ==
    /\ Len(h.chunks) >= 2
    /\ Len(h.chunkSummaries) = Len(h.chunks)
    /\ Len(join(h.chunkSummaries)) <= SUMMARIZE_CHUNK_SIZE

\* The text "[Bagian k]\n" that begins the k-th summary, k below ten.
PartLabel(k) ==
    <<"[", "B", "a", "g", "i", "a", "n", " ">>
        \o <<(<<"1", "2", "3", "4", "5", "6", "7", "8", "9">>)[k]>> \o <<"]", "\n">>

RECURSIVE Sum(_)
Sum(ns) == IF ns = <<>> THEN 0 ELSE Head(ns) + Sum(Tail(ns))

C25_AtMostTwoCallsPerPage ==
    (ocr.pc \in {"vision", "done"}) =>
        /\ Len(ocr.calls) <= Len(ocr.images)
        /\ \A j \in 1..Len(ocr.calls) : ocr.calls[j] \in {1, 2}
        /\ \A j \in 1..Len(ocr.firsts) : (ocr.calls[j] = 2) <=> (ocr.firsts[j] = <<>>)
        /\ (ocr.pc = "vision" /\ ocr.prompt = "fallback") =>
              /\ Len(ocr.firsts) = Len(ocr.calls)
              /\ ocr.calls[Len(ocr.calls)] = 2
        /\ \A j \in 1..Len(ocr.chunks) :
              (ocr.chunks[j] = pageMarker(ocr.images[j]) \o OcrPlaceholder)
                  <=> (ocr.firsts[j] = <<>> /\ ocr.outs[j] = <<>>)
        /\ OcrCompleted =>
              /\ Len(ocr.calls) = Len(ocr.images)
              /\ Sum(ocr.calls) >= Len(ocr.images)
              /\ Sum(ocr.calls) <= 2 * Len(ocr.images)
              /\ Sum(ocr.calls) =
                   Len(ocr.images) + Cardinality({j \in 1..Len(ocr.firsts) :
                                                     ocr.firsts[j] = <<>>})

\* Witness: of two or more pages, one was read at the first call, one only at
\* the second, and one at neither.
C25_OneTwoAndPlaceholder ==
    /\ OcrCompleted
    /\ \E j \in 1..Len(ocr.calls) : ocr.calls[j] = 1
    /\ \E j \in 1..Len(ocr.calls) : ocr.calls[j] = 2 /\ ocr.outs[j] # <<>>
    /\ \E j \in 1..Len(ocr.calls) : ocr.calls[j] = 2 /\ ocr.outs[j] = <<>>

(***************************************************************************)
(* C30.  When rasterizing or a vision call fails during the OCR fallback,  *)
(* extractText still returns, and what it returns is the text of the PDF   *)
(* parser unchanged.  The request then ends in the Failure of blank text   *)
(* when that text is blank, and otherwise goes on to summarize it, even    *)
(* when it is shorter than 50 characters.                                  *)
(***************************************************************************)
C30_OcrErrorKeepsPrimaryText ==
    ocr.threw =>
        /\ ocr.pc = "done" /\ ocr.result = ocr.primary
        /\ h.hasText =>
              /\ h.text = ocr.primary
              /\ IF IsBlank(ocr.primary)
                 THEN /\ Done /\ h.requests = 0 /\ ~h.issued
                      /\ OfType("error") # {}
                      /\ \A k \in OfType("error") :
                            (\A m \in OfType("error") : k <= m) =>
                                h.sent[k] = Failure(blankError(h))
                 ELSE /\ OfType("error") = {}
                      /\ h.pc = "fetch" /\ h.issued /\ h.content = ocr.primary
                      /\ Last(h.sent) = Progress("summarizing", 1, 1)

\* Witness: a vision call failed on a PDF with a little text, and the request
\* goes on with that text.
C30_ShortTextSummarized ==
    /\ ocr.threw /\ ocr.failedPage # 0 /\ h.hasText
    /\ ~IsBlank(ocr.primary) /\ Len(ocr.primary) < MinTextLength
    /\ h.pc = "fetch"

====
